---- MODULE Spec2Model ----
(***************************************************************************)
(* The HTTP orchestration layer of u2fval (u2fval/view.py) as a state      *)
(* machine: one action per request handler, over the persistent data       *)
(* model (users and their devices), the transaction store, the attestation *)
(* cache and the outcome of the last request.                              *)
(***************************************************************************)
EXTENDS Integers, Sequences, FiniteSets, TLC

VARIABLES
    users,           \* (client, user name) -> (device handle -> Device row)
    store,           \* (client id, user id, challenge) -> stored request data
    cache,           \* attestation cache: sha256(cert) -> attestation
    resolver_calls,  \* certificate -> number of metadata resolver invocations
    config,          \* app.config, fixed at startup
    last,            \* the last request: operation, inputs and outcome
    sessions         \* worker -> the database session of its request in progress

vars == <<users, store, cache, resolver_calls, config, last, sessions>>

(***************************************************************************)
(* Bounds of the model.                                                    *)
(***************************************************************************)
MaxCounter == 2
MaxTime == 1

Clients == {"c1"}
UserIds == {"u1"}
Challenges == {"ch1"}
Workers == {1, 2}
KeyHandles == {"k1", "k2"}
Certs == {"certTrusted", "certUntrusted", "certMissing"}
PropKeys == {"name"}
PropVals == {"a", "b"}

Counters == 0..MaxCounter
Times == 1..MaxTime
PropMaps == UNION {[D -> PropVals] : D \in SUBSET PropKeys}

(***************************************************************************)
(* Python values: None and "x or default".                                 *)
(***************************************************************************)
None == {}
Some(x) == {x}
Get(o) == CHOOSE x \in o : TRUE

\* Python's "value or default" on an optional integer: None and 0 are falsy.
PyOr(o, default) == IF o = None \/ o = Some(0) THEN default ELSE Get(o)

RECURSIVE Ordered(_)
Ordered(S) ==
    IF S = {} THEN <<>>
    ELSE LET m == CHOOSE x \in S : \A y \in S : x <= y
         IN <<m>> \o Ordered(S \ {m})

RECURSIVE SumSeq(_)
SumSeq(s) == IF s = <<>> THEN 0 ELSE Head(s) + SumSeq(Tail(s))

(***************************************************************************)
(* Client rows (provisioned out of band, never changed by the API).        *)
(***************************************************************************)
Client(name) ==
    [id |-> <<"id", name>>, name |-> name, app_id |-> <<"app", name>>,
     valid_facets |-> <<<<"facet", name>>>>]

\* The names of the Client rows of the database.
Tenants == {"c1", "c2"}

(***************************************************************************)
(* Transports: the bitmask stored on the device and its decoded names.     *)
(***************************************************************************)
TransportBits == <<<<1, "bt">>, <<2, "ble">>, <<4, "usb">>, <<8, "nfc">>>>

\* sum(t.value for t in attestation.transports or [])
transports_sum(attestation) ==
    IF attestation.transports = None THEN 0 ELSE SumSeq(Get(attestation.transports))

RECURSIVE DecodeFrom(_, _)
DecodeFrom(mask, i) ==
    IF i > Len(TransportBits) THEN <<>>
    ELSE (IF (mask \div TransportBits[i][1]) % 2 = 1
          THEN <<TransportBits[i][2]>> ELSE <<>>) \o DecodeFrom(mask, i + 1)

\* The transport names of a bitmask, as the descriptor lists them.
transport_names(mask) == DecodeFrom(mask, 1)

(***************************************************************************)
(* Persistent data model (u2fval/model.py).                                *)
(***************************************************************************)
\* Device.update_properties: set or overwrite the supplied keys, keep the rest.
update_properties(props, new) ==
    [k \in (DOMAIN props) \cup (DOMAIN new) |->
        IF k \in DOMAIN new THEN new[k] ELSE props[k]]

\* Device.get_descriptor(metadata): the client-facing rendering of a device.
get_descriptor(dev, metadata) ==
    [handle |-> dev.handle,
     transports |-> transport_names(dev.transports),
     compromised |-> dev.compromised,
     lastUsed |-> dev.authenticated_at,
     properties |-> dev.properties,
     metadata |-> metadata]

\* User.add_device(bind_data, cert, transports): a fresh Device row.
add_device(handle, bind_data, cert, transports) ==
    [handle |-> handle,
     bind_data |-> bind_data,
     certificate |-> cert,
     transports |-> transports,
     counter |-> None,
     compromised |-> FALSE,
     authenticated_at |-> None,
     properties |-> <<>>]

\* get_user: the User row of the client with that name, or None.
get_user(c, user_id) ==
    IF <<c, user_id>> \in DOMAIN users THEN Some(users[<<c, user_id>>]) ELSE None

\* user.devices of an optional user (no devices when the user is None).
DevicesOf(c, user_id) ==
    IF <<c, user_id>> \in DOMAIN users THEN users[<<c, user_id>>] ELSE <<>>

(***************************************************************************)
(* Transaction store (u2fval/transactiondb.py).                            *)
(***************************************************************************)
\* store.store: persist under the composite key (client id, user id,
\* challenge), overwriting a prior record.
store_store(s, key, data) ==
    [k \in (DOMAIN s) \cup {key} |-> IF k = key THEN data ELSE s[k]]

\* store.retrieve, the value returned: the record, or None.
store_retrieve(s, key) == IF key \in DOMAIN s THEN Some(s[key]) ELSE None

\* A retrieve that reads the record and leaves it in the store.
store_keep(s, key) == s

\* store.retrieve, the effect: the record is consumed.
store_consume(s, key) == [k \in (DOMAIN s) \ {key} |-> s[k]]

(***************************************************************************)
(* Attestation and metadata.                                               *)
(***************************************************************************)
\* The empty string cached for a certificate the resolver does not know.
EmptyAttestation == [empty |-> TRUE]

\* metadata.get_attestation(cert): the external resolver, None when it has
\* nothing for the certificate.
metadata_get_attestation(cert) ==
    CASE cert = "certTrusted" ->
            Some([empty |-> FALSE, trusted |-> TRUE,
                  vendor_info |-> Some("vendor"), device_info |-> Some("device"),
                  transports |-> Some(<<4>>)])
      [] cert = "certUntrusted" ->
            Some([empty |-> FALSE, trusted |-> FALSE,
                  vendor_info |-> None, device_info |-> None,
                  transports |-> None])
      [] OTHER -> None

sha256(cert) == <<"sha256", cert>>

\* metadata.get_attestation(cert) or '': what a cache miss resolves and caches.
resolve_or_empty(cert) ==
    LET a == metadata_get_attestation(cert)
    IN IF a = None THEN EmptyAttestation ELSE Get(a)

\* "if not attestation": the cached empty string counts as a miss.
cache_miss_when_falsy(cert) ==
    sha256(cert) \notin DOMAIN cache \/ cache[sha256(cert)] = EmptyAttestation

\* cache.get(key) is None: the cached empty string is a hit.
cache_miss(cert) == sha256(cert) \notin DOMAIN cache

\* get_attestation, the value returned.
get_attestation(cert) ==
    IF cache_miss(cert) THEN resolve_or_empty(cert) ELSE cache[sha256(cert)]

\* get_attestation over a set of certificates, the cache after the calls.
cache_after(certs) ==
    [k \in (DOMAIN cache) \cup {sha256(x) : x \in {y \in certs : cache_miss(y)}} |->
        IF k \in DOMAIN cache THEN cache[k] ELSE resolve_or_empty(k[2])]

\* get_attestation over a set of certificates, the resolver invocations after.
calls_after(certs) ==
    [x \in DOMAIN resolver_calls |->
        IF x \in certs /\ cache_miss(x)
        THEN resolver_calls[x] + 1 ELSE resolver_calls[x]]

\* An attribute read on the attestation: the empty string has none.
HasAttributes(attestation) == ~attestation.empty

\* get_metadata(dev): the vendor and device labels of the device's certificate.
get_metadata(dev) ==
    LET attestation == get_attestation(dev.certificate)
    IN IF attestation.empty
       THEN [vendor |-> None, device |-> None]
       ELSE [vendor |-> attestation.vendor_info, device |-> attestation.device_info]

(***************************************************************************)
(* The U2F engine (u2flib_server.u2f), by its contract.                    *)
(***************************************************************************)
begin_registration(app_id, registered_keys, challenge) ==
    [kind |-> "register", appId |-> app_id, challenge |-> challenge,
     registeredKeys |-> registered_keys]

begin_authentication(app_id, registered_keys, challenge) ==
    [kind |-> "sign", appId |-> app_id, challenge |-> challenge,
     registeredKeys |-> registered_keys]

\* complete_registration accepts: a registration context and a response that
\* verifies against it.
registration_verifies(request_data, register_response) ==
    /\ request_data.kind = "register"
    /\ register_response.valid
    /\ register_response.clientData.challenge = request_data.challenge

\* complete_registration, the registration it yields (registration.json).
registration_of(request_data, register_response) ==
    [appId |-> Some(request_data.appId),
     keyHandle |-> register_response.keyHandle,
     publicKey |-> <<"pk", register_response.keyHandle>>,
     version |-> Some("U2F_V2"),
     transports |-> None]

\* The key handles of a list of registered keys.
KeyHandlesOf(registered_keys) ==
    {registered_keys[i].keyHandle : i \in DOMAIN registered_keys}

\* complete_authentication accepts: an authentication context, a response that
\* verifies against it, from one of the context's registered keys.
authentication_verifies(request_data, sign_response) ==
    /\ request_data.kind = "sign"
    /\ sign_response.valid
    /\ sign_response.clientData.challenge = request_data.challenge
    /\ sign_response.keyHandle \in KeyHandlesOf(request_data.registeredKeys)

\* complete_authentication, the registered key it identifies.
authenticated_device(request_data, sign_response) ==
    LET keys == request_data.registeredKeys
        i == CHOOSE j \in DOMAIN keys : keys[j].keyHandle = sign_response.keyHandle
    IN keys[i]

(***************************************************************************)
(* Helpers of the request handlers.                                        *)
(***************************************************************************)
\* _get_registered_key without "key['transports'] = descriptor['transports']".
_get_registered_key_stored_transports(c, dev, descriptor) ==
    LET key == dev.bind_data
    IN [appId |-> IF key.appId = Some(Client(c).app_id) THEN None ELSE key.appId,
        version |-> IF key.version = None THEN Some("U2F_V2") ELSE key.version,
        keyHandle |-> key.keyHandle,
        publicKey |-> key.publicKey,
        transports |-> key.transports]

\* _get_registered_key(dev, descriptor), for the resolved client c.
_get_registered_key(c, dev, descriptor) ==
    LET key == dev.bind_data
    IN [appId |-> IF key.appId = Some(Client(c).app_id) THEN None ELSE key.appId,
        version |-> IF key.version = None THEN Some("U2F_V2") ELSE key.version,
        keyHandle |-> key.keyHandle,
        publicKey |-> key.publicKey,
        transports |-> Some(descriptor.transports)]

\* [dev.get_descriptor(get_metadata(dev)) for the devices with these handles]
descriptors_of(devs, hs) ==
    [i \in 1..Len(hs) |-> get_descriptor(devs[hs[i]], get_metadata(devs[hs[i]]))]

\* [_get_registered_key(dev, descriptor) for the devices with these handles]
registered_keys_of(c, devs, hs) ==
    [i \in 1..Len(hs) |->
        _get_registered_key(c, devs[hs[i]],
                            get_descriptor(devs[hs[i]], get_metadata(devs[hs[i]])))]

\* The certificates get_metadata resolves for these devices.
certs_of(devs, hs) == {devs[hs[i]].certificate : i \in 1..Len(hs)}

\* The request's record in last.
Result(op, c, user_id, req, outcome, message, res) ==
    [op |-> op, client |-> c, user |-> user_id, req |-> req,
     outcome |-> outcome, message |-> message, res |-> res]

(***************************************************************************)
(* Registration.                                                           *)
(***************************************************************************)
\* store.store(client.id, user_id, challenge, ...): the key a begin call
\* stores under.
store_key(client, user_id, challenge) == <<client.id, user_id, challenge>>

\* store.retrieve called with the client's app_id in place of its id.
retrieve_key_by_app_id(client, user_id, challenge) ==
    <<client.app_id, user_id, challenge>>

\* store.retrieve keyed by user and challenge only: every client shares one id.
retrieve_key_any_client(client, user_id, challenge) ==
    <<Client("c1").id, user_id, challenge>>

\* store.retrieve(client.id, user_id, challenge): the key a completion call
\* retrieves.
retrieve_key(client, user_id, challenge) == <<client.id, user_id, challenge>>

\* A handler whose pending User survives the exception (the session is
\* committed or flushed on the way out).
with_pending_user(c, user_id) ==
    [k \in (DOMAIN users) \cup {<<c, user_id>>} |->
        IF k \in DOMAIN users THEN users[k] ELSE <<>>]

\* A handler that raises before db.session.commit(): the session's pending
\* changes (a User appended to client.users) are dropped with the request.
without_commit(c, user_id) == users

\* Begin a registration ceremony.
_register_request(c, user_id, challenge, properties) ==
    LET client == Client(c)
        devs == DevicesOf(c, user_id)
        hs == Ordered(DOMAIN devs)
        descriptors == descriptors_of(devs, hs)
        registered_keys == registered_keys_of(c, devs, hs)
        request_data == begin_registration(client.app_id, registered_keys, challenge)
        stored == [kind |-> request_data.kind, appId |-> request_data.appId,
                   challenge |-> request_data.challenge,
                   registeredKeys |-> request_data.registeredKeys,
                   properties |-> properties]
        data == [appId |-> request_data.appId, challenge |-> request_data.challenge,
                 registeredKeys |-> request_data.registeredKeys,
                 descriptors |-> descriptors]
    IN /\ store' = store_store(store, store_key(client, user_id, challenge), stored)
       /\ cache' = cache_after(certs_of(devs, hs))
       /\ resolver_calls' = calls_after(certs_of(devs, hs))
       /\ last' = Result("register_request", c, user_id,
                         [challenge |-> challenge, properties |-> properties],
                         "ok", "", data)
       /\ UNCHANGED <<users, config, sessions>>

\* The response's properties applied first and the begin call's second.
merge_properties_begin_last(props, begin, complete) ==
    update_properties(update_properties(props, complete), begin)

\* dev.update_properties(request_data['properties']) and then
\* dev.update_properties(response_data.properties): the properties from the
\* begin call have the lower precedence.
merge_properties(props, begin, complete) ==
    update_properties(update_properties(props, begin), complete)

\* request_data is None
transaction_missing(request_data) == request_data = None

\* not app.config['ALLOW_UNTRUSTED'] and not attestation.trusted
attestation_rejected(attestation) ==
    ~config.ALLOW_UNTRUSTED /\ ~attestation.trusted

\* The registration check reads attestation.trusted only when untrusted
\* devices are not allowed ("and" short-circuits).
trust_check_reads(attestation) == ~config.ALLOW_UNTRUSTED

\* What last keeps of a registration response: the fields the handler has
\* read when it returns (the challenge; the engine's key handle and
\* certificate once it verified; the properties once they are merged).
register_seen(response_data, verified, merged) ==
    [challenge |-> response_data.registerResponse.clientData.challenge,
     keyHandle |-> IF verified THEN Some(response_data.registerResponse.keyHandle)
                   ELSE None,
     cert |-> IF verified THEN Some(response_data.registerResponse.cert) ELSE None,
     properties |-> IF merged THEN Some(response_data.properties) ELSE None]

\* Complete a registration ceremony; add_device generates a handle out of
\* handles.
_register_response(c, user_id, response_data, handles) ==
    LET client == Client(c)
        user == get_user(c, user_id)
        register_response == response_data.registerResponse
        challenge == register_response.clientData.challenge
        retrieved == store_retrieve(store, retrieve_key(client, user_id, challenge))
        consumed == store_consume(store, retrieve_key(client, user_id, challenge))
        Fail(verified, outcome, message) ==
            /\ last' = Result("register_response", c, user_id,
                              register_seen(response_data, verified, FALSE),
                              outcome, message, None)
            /\ store' = consumed
            /\ users' = without_commit(c, user_id)
            /\ UNCHANGED <<config, sessions>>
    IN IF transaction_missing(retrieved)
       THEN /\ Fail(FALSE, "NotFound", "Transaction not found")
            /\ UNCHANGED <<cache, resolver_calls>>
       ELSE LET request_data == Get(retrieved)
            IN IF ~registration_verifies(request_data, register_response)
               THEN \* complete_registration raises: handle_value_error
                    /\ Fail(FALSE, "BadInput", "engine")
                    /\ UNCHANGED <<cache, resolver_calls>>
               ELSE LET registration == registration_of(request_data, register_response)
                        cert == register_response.cert
                        attestation == get_attestation(cert)
                    IN /\ cache' = cache_after({cert})
                       /\ resolver_calls' = calls_after({cert})
                       /\ IF trust_check_reads(attestation) /\ ~HasAttributes(attestation)
                          THEN \* ''.trusted: AttributeError, no handler
                               Fail(TRUE, "InternalError", "AttributeError")
                          ELSE IF attestation_rejected(attestation)
                          THEN Fail(TRUE, "BadInput", "Device attestation not trusted")
                          ELSE IF ~HasAttributes(attestation)
                          THEN \* ''.transports: AttributeError before the commit
                               Fail(TRUE, "InternalError", "AttributeError")
                          ELSE \* user.add_device generates a handle new to the user
                               \E handle \in handles \ DOMAIN DevicesOf(c, user_id) :
                                  LET transports == transports_sum(attestation)
                                      dev0 == add_device(handle, registration, cert,
                                                         transports)
                                      dev == [dev0 EXCEPT !.properties =
                                          merge_properties(@, request_data.properties,
                                                           response_data.properties)]
                                      devs == DevicesOf(c, user_id)
                                      devs2 == [h \in (DOMAIN devs) \cup {handle} |->
                                                  IF h = handle THEN dev ELSE devs[h]]
                                      response ==
                                          [descriptor |->
                                               get_descriptor(dev, get_metadata(dev)),
                                           clientData |-> register_response.clientData]
                                  IN /\ users' =
                                          [k \in (DOMAIN users) \cup {<<c, user_id>>} |->
                                              IF k = <<c, user_id>> THEN devs2 ELSE users[k]]
                                     /\ store' = consumed
                                     /\ last' = Result("register_response", c, user_id,
                                            register_seen(response_data, TRUE, TRUE),
                                            "ok", "", response)
                                     /\ UNCHANGED <<config, sessions>>

(***************************************************************************)
(* Authentication.                                                         *)
(***************************************************************************)
\* user is None: a user without devices is not caught.
user_missing(c, user_id) == get_user(c, user_id) = None

\* user is None or len(user.devices) == 0
no_devices_registered(c, user_id) ==
    get_user(c, user_id) = None \/ Cardinality(DOMAIN DevicesOf(c, user_id)) = 0

\* not dev.compromised: the device takes part in the ceremony
eligible(dev) == ~dev.compromised

\* handle_map[key['keyHandle']] = dev.handle, over the eligible devices in order
RECURSIVE handle_map_of(_, _, _)
handle_map_of(registered_keys, hs, i) ==
    IF i = 0 THEN <<>>
    ELSE LET m == handle_map_of(registered_keys, hs, i - 1)
             kh == registered_keys[i].keyHandle
         IN [k \in (DOMAIN m) \cup {kh} |-> IF k = kh THEN hs[i] ELSE m[k]]

\* Begin an authentication ceremony.
_sign_request(c, user_id, challenge, properties) ==
    LET client == Client(c)
        devs == DevicesOf(c, user_id)
        req == [challenge |-> challenge, properties |-> properties]
        hs == Ordered({h \in DOMAIN devs : eligible(devs[h])})
        descriptors == descriptors_of(devs, hs)
        registered_keys == registered_keys_of(c, devs, hs)
        handle_map == handle_map_of(registered_keys, hs, Len(hs))
        all == Ordered(DOMAIN devs)
    IN IF no_devices_registered(c, user_id)
       THEN /\ last' = Result("sign_request", c, user_id, req, "NoEligibleDevices",
                              "No devices registered", [devices |-> <<>>])
            /\ UNCHANGED <<users, store, cache, resolver_calls, config, sessions>>
       ELSE /\ cache' = cache_after(certs_of(devs, hs))
            /\ resolver_calls' = calls_after(certs_of(devs, hs))
            /\ UNCHANGED <<users, config, sessions>>
            /\ IF registered_keys = <<>>
               THEN /\ last' = Result("sign_request", c, user_id, req,
                                      "NoEligibleDevices", "All devices compromised",
                                      [devices |-> [i \in 1..Len(all) |->
                                           get_descriptor(devs[all[i]], None)]])
                    /\ UNCHANGED store
               ELSE LET request_data ==
                            begin_authentication(client.app_id, registered_keys, challenge)
                        stored == [kind |-> request_data.kind,
                                   appId |-> request_data.appId,
                                   challenge |-> request_data.challenge,
                                   registeredKeys |-> request_data.registeredKeys,
                                   handleMap |-> handle_map,
                                   properties |-> properties]
                        data == [appId |-> request_data.appId,
                                 challenge |-> request_data.challenge,
                                 registeredKeys |-> request_data.registeredKeys,
                                 descriptors |-> descriptors]
                    IN /\ store' = store_store(store,
                                               store_key(client, user_id, challenge),
                                               stored)
                       /\ last' = Result("sign_request", c, user_id, req, "ok", "", data)

\* dev.compromised: the completion is refused
compromised_refused(dev) == dev.compromised

\* counter > (dev.counter or 0): a first counter of 0 is refused.
counter_accepted_above_zero(counter, dev) == counter > PyOr(dev.counter, 0)

\* counter > (dev.counter or -1)
counter_accepted(counter, dev) == counter > PyOr(dev.counter, -1)

\* What last keeps of an authentication response: the fields the handler has
\* read when it returns (the challenge; the key handle once the transaction is
\* found; the engine's counter and presence once it verified; the properties
\* once they are merged).
sign_seen(response_data, found, verified, merged) ==
    [challenge |-> response_data.signResponse.clientData.challenge,
     keyHandle |-> IF found THEN Some(response_data.signResponse.keyHandle) ELSE None,
     counter |-> IF verified THEN Some(response_data.signResponse.counter) ELSE None,
     presence |-> IF verified THEN Some(response_data.signResponse.presence) ELSE None,
     properties |-> IF merged THEN Some(response_data.properties) ELSE None]

\* Complete an authentication ceremony; datetime.now() is one of times.
_sign_response(c, user_id, response_data, times) ==
    LET client == Client(c)
        user == get_user(c, user_id)
        sign_response == response_data.signResponse
        challenge == sign_response.clientData.challenge
        retrieved == store_retrieve(store, retrieve_key(client, user_id, challenge))
        consumed == store_consume(store, retrieve_key(client, user_id, challenge))
        Fail(found, verified, outcome, message) ==
            /\ last' = Result("sign_response", c, user_id,
                              sign_seen(response_data, found, verified, FALSE),
                              outcome, message, None)
            /\ store' = consumed
            /\ users' = without_commit(c, user_id)
            /\ UNCHANGED <<cache, resolver_calls, config, sessions>>
    IN IF transaction_missing(retrieved)
       THEN Fail(FALSE, FALSE, "NotFound", "Transaction not found")
       ELSE LET request_data == Get(retrieved)
            IN IF ~authentication_verifies(request_data, sign_response)
               THEN \* complete_authentication raises: handle_value_error
                    Fail(TRUE, FALSE, "BadInput", "engine")
               ELSE LET device == authenticated_device(request_data, sign_response)
                        counter == sign_response.counter
                        presence == sign_response.presence
                    IN IF user = None
                       THEN \* None.devices: AttributeError, no handler
                            Fail(TRUE, TRUE, "InternalError", "AttributeError")
                       ELSE IF device.keyHandle \notin DOMAIN request_data.handleMap
                       THEN Fail(TRUE, TRUE, "InternalError", "KeyError")
                       ELSE IF request_data.handleMap[device.keyHandle]
                                    \notin DOMAIN Get(user)
                       THEN \* no such device any more
                            Fail(TRUE, TRUE, "InternalError", "LookupError")
                       ELSE LET handle == request_data.handleMap[device.keyHandle]
                                dev == Get(user)[handle]
                            IN IF compromised_refused(dev)
                               THEN Fail(TRUE, TRUE, "BadInput", "Device is compromised")
                               ELSE IF presence = 0
                               THEN Fail(TRUE, TRUE, "BadInput",
                                         "User presence byte not set")
                               ELSE IF counter_accepted(counter, dev)
                               THEN \E now \in times :
                                    LET dev2 == [dev EXCEPT
                                            !.counter = Some(counter),
                                            !.authenticated_at = Some(now),
                                            !.properties = merge_properties(
                                                @, request_data.properties,
                                                response_data.properties)]
                                        response == [descriptor |->
                                                        get_descriptor(dev2, get_metadata(dev2)),
                                                     clientData |-> sign_response.clientData]
                                    IN /\ users' = [users EXCEPT
                                                       ![<<c, user_id>>][handle] = dev2]
                                       /\ store' = consumed
                                       /\ cache' = cache_after({dev2.certificate})
                                       /\ resolver_calls' = calls_after({dev2.certificate})
                                       /\ last' = Result("sign_response", c, user_id,
                                              sign_seen(response_data, TRUE, TRUE, TRUE),
                                              "ok", "", response)
                                       /\ UNCHANGED <<config, sessions>>
                               ELSE \* falls off the end: the handler returns None
                                    Fail(TRUE, TRUE, "null", "")

(***************************************************************************)
(* Users and devices.                                                      *)
(***************************************************************************)
\* DELETE /<user_id> that answers 404 for a user that does not exist.
user_DELETE_strict(c, user_id) ==
    LET user == get_user(c, user_id)
    IN /\ users' = [k \in (DOMAIN users) \ {<<c, user_id>>} |-> users[k]]
       /\ last' = Result("user_DELETE", c, user_id, None,
                         IF user = None THEN "NotFound" ELSE "no_content", "", None)
       /\ UNCHANGED <<store, cache, resolver_calls, config, sessions>>

\* DELETE /<user_id>
user_DELETE(c, user_id) ==
    LET user == get_user(c, user_id)
    IN /\ users' = IF user # None
                   THEN [k \in (DOMAIN users) \ {<<c, user_id>>} |-> users[k]]
                   ELSE users
       /\ last' = Result("user_DELETE", c, user_id, None, "no_content", "", None)
       /\ UNCHANGED <<store, cache, resolver_calls, config, sessions>>

\* DELETE /<user_id>/<handle>
device_DELETE(c, user_id, handle) ==
    LET user == get_user(c, user_id)
    IN IF user = None
       THEN /\ last' = Result("device_DELETE", c, user_id, [handle |-> handle],
                              "NotFound", "Device not found", None)
            /\ UNCHANGED <<users, store, cache, resolver_calls, config, sessions>>
       ELSE /\ users' = [users EXCEPT ![<<c, user_id>>] =
                            [h \in (DOMAIN @) \ {handle} |-> @[h]]]
            /\ last' = Result("device_DELETE", c, user_id, [handle |-> handle],
                              "no_content", "", None)
            /\ UNCHANGED <<store, cache, resolver_calls, config, sessions>>

(***************************************************************************)
(* The environment: what changes the stored state outside the handlers.    *)
(***************************************************************************)
\* A device is flagged compromised (Device.compromised is set outside the
\* request handlers).
MarkCompromised(c, user_id, handle) ==
    /\ <<c, user_id>> \in DOMAIN users
    /\ handle \in DOMAIN users[<<c, user_id>>]
    /\ ~users[<<c, user_id>>][handle].compromised
    /\ users' = [users EXCEPT ![<<c, user_id>>][handle].compromised = TRUE]
    /\ last' = Result("mark_compromised", c, user_id, [handle |-> handle],
                      "ok", "", None)
    /\ UNCHANGED <<store, cache, resolver_calls, config, sessions>>

\* A stored transaction outlives its time-to-live and is discarded.
Expire(key) ==
    /\ key \in DOMAIN store
    /\ store' = [k \in (DOMAIN store) \ {key} |-> store[k]]
    /\ last' = Result("expire", key[1], key[2], [challenge |-> key[3]], "ok", "", None)
    /\ UNCHANGED <<users, cache, resolver_calls, config, sessions>>

(***************************************************************************)
(* The requests a client sends, over given sets of field values.  A        *)
(* response that does not verify is rejected before any other field is     *)
(* read, so one such response per challenge and key handle stands for all. *)
(***************************************************************************)
RegisterResponses(challenges, keyHandles, certs, props) ==
    [registerResponse : [clientData : [challenge : challenges],
                         keyHandle : keyHandles, cert : certs, valid : {TRUE}],
     properties : props]
    \cup
    [registerResponse : [clientData : [challenge : challenges],
                         keyHandle : {"k1"}, cert : {"certTrusted"}, valid : {FALSE}],
     properties : {<<>>}]

SignResponses(challenges, keyHandles, counters, presences, props) ==
    [signResponse : [clientData : [challenge : challenges],
                     keyHandle : keyHandles, counter : counters,
                     presence : presences, valid : {TRUE}],
     properties : props]
    \cup
    [signResponse : [clientData : [challenge : challenges],
                     keyHandle : keyHandles, counter : {0},
                     presence : {1}, valid : {FALSE}],
     properties : {<<>>}]

InitWith(allow) ==
    /\ users = <<>>
    /\ store = <<>>
    /\ cache = <<>>
    /\ resolver_calls = [x \in Certs |-> 0]
    /\ config \in [ALLOW_UNTRUSTED : allow]
    /\ last = Result("start", "", "", None, "ok", "", None)
    /\ sessions = [w \in Workers |-> None]

\* The requests of a scenario I: a record of the sets its inputs range over.
NextWith(I) ==
    \/ \E c \in I.clients, u \in I.users, ch \in I.challenges, p \in I.props :
          _register_request(c, u, ch, p)
    \/ \E c \in I.clients, u \in I.users,
          r \in RegisterResponses(I.challenges, I.keyHandles, I.certs, I.props) :
          _register_response(c, u, r, I.handles)
    \/ \E c \in I.clients, u \in I.users, ch \in I.challenges, p \in I.props :
          _sign_request(c, u, ch, p)
    \/ \E c \in I.clients, u \in I.users,
          r \in SignResponses(I.challenges, I.keyHandles, I.counters, {0, 1}, I.props) :
          _sign_response(c, u, r, I.times)
    \/ \E c \in I.clients, u \in I.users : user_DELETE(c, u)
    \/ \E c \in I.clients, u \in I.users, h \in I.handles : device_DELETE(c, u, h)
    \/ \E c \in I.clients, u \in I.users, h \in I.handles : MarkCompromised(c, u, h)
    \/ \E key \in DOMAIN store : Expire(key)

\* One device per user; every certificate, property map, counter and time,
\* under both trust policies.
OneDevice ==
    [clients |-> Clients, users |-> UserIds, challenges |-> Challenges,
     handles |-> {1}, keyHandles |-> {"k1"}, certs |-> Certs,
     props |-> PropMaps, counters |-> Counters, times |-> Times]

Init == InitWith(BOOLEAN)
Next == NextWith(OneDevice)
Spec == Init /\ [][Next]_vars

\* Two devices per user, which may share a key handle; trusted certificates
\* only, no properties.
TwoDevices ==
    [clients |-> Clients, users |-> UserIds, challenges |-> Challenges,
     handles |-> {1, 2}, keyHandles |-> KeyHandles, certs |-> {"certTrusted"},
     props |-> {<<>>}, counters |-> {0, 1}, times |-> {1}]

InitDevices == InitWith({FALSE})
NextDevices == NextWith(TwoDevices)
SpecDevices == InitDevices /\ [][NextDevices]_vars

\* One device per user and property maps over two keys.
TwoKeyMaps == UNION {[D -> PropVals] : D \in SUBSET {"name", "tag"}}

Properties ==
    [clients |-> Clients, users |-> UserIds, challenges |-> Challenges,
     handles |-> {1}, keyHandles |-> {"k1"}, certs |-> {"certTrusted"},
     props |-> TwoKeyMaps, counters |-> {0, 1}, times |-> {1}]

InitProperties == InitWith({FALSE})
NextProperties == NextWith(Properties)
SpecProperties == InitProperties /\ [][NextProperties]_vars

(***************************************************************************)
(* Authentication completions served concurrently.  Each worker has its    *)
(* own database session: _sign_response loads the device row (line 287),   *)
(* checks it and compares the counter against the loaded row, and its      *)
(* db.session.commit() (line 296) writes the attributes it assigned.       *)
(* Requests of other workers may be served in between.                     *)
(***************************************************************************)
\* The completion reaches the assignments of lines 293-295.
sign_accepted(c, user_id, response_data) ==
    LET sign_response == response_data.signResponse
        retrieved == store_retrieve(store, retrieve_key(Client(c), user_id,
                                        sign_response.clientData.challenge))
        devs == DevicesOf(c, user_id)
    IN /\ ~transaction_missing(retrieved)
       /\ authentication_verifies(Get(retrieved), sign_response)
       /\ get_user(c, user_id) # None
       /\ sign_response.keyHandle \in DOMAIN Get(retrieved).handleMap
       /\ Get(retrieved).handleMap[sign_response.keyHandle] \in DOMAIN devs
       /\ LET dev == devs[Get(retrieved).handleMap[sign_response.keyHandle]]
          IN /\ ~compromised_refused(dev)
             /\ sign_response.presence # 0
             /\ counter_accepted(sign_response.counter, dev)

\* Lines 277-295 in the session of worker w: the transaction is retrieved,
\* the device loaded and checked; an accepted completion holds its
\* assignments in the session, any other ends as _sign_response does.
sign_read(w, c, user_id, response_data, times) ==
    /\ sessions[w] = None
    /\ IF sign_accepted(c, user_id, response_data)
       THEN LET sign_response == response_data.signResponse
                key == retrieve_key(Client(c), user_id,
                                    sign_response.clientData.challenge)
                request_data == Get(store_retrieve(store, key))
                handle == request_data.handleMap[sign_response.keyHandle]
                dev == DevicesOf(c, user_id)[handle]
            IN \E now \in times :
                 /\ sessions' = [sessions EXCEPT ![w] =
                        Some([client |-> c, user |-> user_id, handle |-> handle,
                              loaded |-> dev,
                              counter |-> sign_response.counter,
                              authenticated_at |-> now,
                              properties |-> merge_properties(dev.properties,
                                                request_data.properties,
                                                response_data.properties),
                              seen |-> sign_seen(response_data, TRUE, TRUE, TRUE),
                              clientData |-> sign_response.clientData])]
                 /\ store' = store_consume(store, key)
                 /\ last' = Result("sign_response", c, user_id,
                                   sign_seen(response_data, TRUE, TRUE, TRUE),
                                   "pending", "", None)
                 /\ UNCHANGED <<users, cache, resolver_calls, config>>
       ELSE _sign_response(c, user_id, response_data, times)

\* Lines 296-300 in the session of worker w: the commit writes counter,
\* authenticated_at and properties to the device row, and the descriptor of
\* the session's device is returned.
sign_write(w) ==
    /\ sessions[w] # None
    /\ LET s == Get(sessions[w])
           dev2 == [s.loaded EXCEPT !.counter = Some(s.counter),
                                    !.authenticated_at = Some(s.authenticated_at),
                                    !.properties = s.properties]
       IN /\ sessions' = [sessions EXCEPT ![w] = None]
          /\ IF s.handle \in DOMAIN DevicesOf(s.client, s.user)
             THEN /\ users' = [users EXCEPT ![<<s.client, s.user>>][s.handle] =
                                  [@ EXCEPT !.counter = dev2.counter,
                                            !.authenticated_at = dev2.authenticated_at,
                                            !.properties = dev2.properties]]
                  /\ cache' = cache_after({dev2.certificate})
                  /\ resolver_calls' = calls_after({dev2.certificate})
                  /\ last' = Result("sign_response", s.client, s.user, s.seen, "ok", "",
                                    [descriptor |-> get_descriptor(dev2, get_metadata(dev2)),
                                     clientData |-> s.clientData])
             ELSE \* the row is gone: the UPDATE matches nothing and the commit fails
                  /\ last' = Result("sign_response", s.client, s.user, s.seen,
                                    "InternalError", "StaleDataError", None)
                  /\ UNCHANGED <<users, cache, resolver_calls>>
          /\ UNCHANGED <<store, config>>

\* Two workers, two challenges, one device per user.
Concurrent ==
    [clients |-> Clients, users |-> UserIds, challenges |-> {"ch1", "ch2"},
     handles |-> {1}, keyHandles |-> {"k1"}, certs |-> {"certTrusted"},
     props |-> {<<>>}, counters |-> {0, 1}, times |-> {1}]

InitConcurrent == InitWith({FALSE})
NextConcurrent ==
    \/ NextWith(Concurrent)
    \/ \E w \in Workers, c \in Concurrent.clients, u \in Concurrent.users,
          r \in SignResponses(Concurrent.challenges, Concurrent.keyHandles,
                              Concurrent.counters, {0, 1}, Concurrent.props) :
          sign_read(w, c, u, r, Concurrent.times)
    \/ \E w \in Workers : sign_write(w)
SpecConcurrent == InitConcurrent /\ [][NextConcurrent]_vars

(***************************************************************************)
(* Registered-key reconstruction over the bind_data a device may hold.     *)
(***************************************************************************)
\* Stored registrations: appId absent, the app id of either client; version
\* absent or present; transports absent or present.
BindData ==
    [appId : {None} \cup {Some(Client(n).app_id) : n \in Tenants},
     version : {None, Some("U2F_V2"), Some("U2F_V1")},
     keyHandle : KeyHandles,
     publicKey : {<<"pk", "k1">>},
     transports : {None, Some(<<"nfc">>)}]

\* Transport bitmasks of a device: none, usb, usb and nfc.
Masks == {0, 4, 12}

\* _get_registered_key for a device of client c holding bind_data, with its
\* freshly rendered descriptor.
registered_key(c, bind_data, mask) ==
    LET dev == add_device(1, bind_data, "certTrusted", mask)
        descriptor == get_descriptor(dev, get_metadata(dev))
    IN /\ last' = Result("_get_registered_key", c, "",
                         [bind_data |-> bind_data, descriptor |-> descriptor],
                         "ok", "", _get_registered_key(c, dev, descriptor))
       /\ UNCHANGED <<users, store, cache, resolver_calls, config, sessions>>

InitKeys == InitWith({FALSE})
NextKeys ==
    \E c \in Tenants, bind_data \in BindData, mask \in Masks :
        registered_key(c, bind_data, mask)
SpecKeys == InitKeys /\ [][NextKeys]_vars

\* Two clients with a user of the same name, and a second user of the first
\* client; one device per user, one challenge.
Tenant(c, us) ==
    [clients |-> {c}, users |-> us, challenges |-> {"ch1"},
     handles |-> {1}, keyHandles |-> {"k1"}, certs |-> {"certTrusted"},
     props |-> {<<>>}, counters |-> {0}, times |-> {1}]

InitTenants == InitWith({FALSE})
NextTenants ==
    \/ NextWith(Tenant("c1", {"u1", "u2"}))
    \/ NextWith(Tenant("c2", {"u1"}))
SpecTenants == InitTenants /\ [][NextTenants]_vars

(***************************************************************************)
(* Client resolution and the device routes.                                *)
(***************************************************************************)
\* The names a request may carry as its principal.
Principals == Tenants \cup {"stranger"}

\* What get_client reads of a request: request.environ['REMOTE_USER'],
\* app.debug and the username of request.authorization.
Environs ==
    [REMOTE_USER : {None} \cup {Some(n) : n \in Principals},
     debug : BOOLEAN,
     authorization : {None} \cup {Some(n) : n \in {"c1", "stranger"}}]

\* get_client with the basic-auth username read whatever app.debug is.
get_client_basic_auth(environ) ==
    LET name == IF environ.REMOTE_USER = None /\ environ.authorization # None
                THEN environ.authorization ELSE environ.REMOTE_USER
    IN IF name = None
       THEN [outcome |-> "BadInput", message |-> "No client specified",
             client |-> None]
       ELSE IF Get(name) \notin Tenants
       THEN [outcome |-> "NotFound", message |-> "Client not found", client |-> None]
       ELSE [outcome |-> "ok", message |-> "", client |-> Some(Client(Get(name)))]

\* get_client(): the Client row of the request's principal, or the error raised.
get_client(environ) ==
    LET name == IF environ.REMOTE_USER = None /\ environ.debug
                   /\ environ.authorization # None
                THEN environ.authorization ELSE environ.REMOTE_USER
    IN IF name = None
       THEN [outcome |-> "BadInput", message |-> "No client specified",
             client |-> None]
       ELSE IF Get(name) \notin Tenants
       THEN \* .one() raises: no row with that name
            [outcome |-> "NotFound", message |-> "Client not found", client |-> None]
       ELSE [outcome |-> "ok", message |-> "", client |-> Some(Client(Get(name)))]

\* The routes of the application; each resolves the client before anything else.
RouteNames ==
    {"trusted_facets", "user_GET", "user_DELETE", "register", "authenticate",
     "device_GET", "device_POST", "device_DELETE", "device_certificate"}

\* GET /: the trusted facets of the resolved client.
trusted_facets(environ) ==
    LET resolved == get_client(environ)
    IN /\ last' = IF resolved.outcome = "ok"
                  THEN Result("trusted_facets", Get(resolved.client).name, "", environ,
                              "ok", "",
                              Some([trustedFacets |-> Get(resolved.client).valid_facets]))
                  ELSE Result("trusted_facets", "", "", environ,
                              resolved.outcome, resolved.message, None)
       /\ UNCHANGED <<users, store, cache, resolver_calls, config, sessions>>

\* A request to any route whose client does not resolve: get_client raises
\* before the handler reads or writes anything.
request_refused(op, environ, user_id) ==
    LET resolved == get_client(environ)
    IN /\ resolved.outcome # "ok"
       /\ last' = Result(op, "", user_id, environ,
                         resolved.outcome, resolved.message, None)
       /\ UNCHANGED <<users, store, cache, resolver_calls, config, sessions>>

\* user.devices[handle]: the device, or None when the user has none with that
\* handle.
device_lookup(devs, handle) ==
    IF handle \in DOMAIN devs THEN Some(devs[handle]) ELSE None

\* GET /<user_id>/<handle>
device_GET(c, user_id, handle) ==
    LET user == get_user(c, user_id)
        dev == device_lookup(DevicesOf(c, user_id), handle)
        req == [handle |-> handle]
    IN IF user = None \/ dev = None
       THEN /\ last' = Result("device_GET", c, user_id, req,
                              "NotFound", "Device not found", None)
            /\ UNCHANGED <<users, store, cache, resolver_calls, config, sessions>>
       ELSE /\ last' = Result("device_GET", c, user_id, req, "ok", "",
                              Some(get_descriptor(Get(dev), get_metadata(Get(dev)))))
            /\ cache' = cache_after({Get(dev).certificate})
            /\ resolver_calls' = calls_after({Get(dev).certificate})
            /\ UNCHANGED <<users, store, config, sessions>>

\* POST /<user_id>/<handle> with a properties map as the body
device_POST(c, user_id, handle, properties) ==
    LET user == get_user(c, user_id)
        dev == device_lookup(DevicesOf(c, user_id), handle)
        req == [handle |-> handle, properties |-> properties]
    IN IF user = None \/ dev = None
       THEN /\ last' = Result("device_POST", c, user_id, req,
                              "NotFound", "Device not found", None)
            /\ UNCHANGED <<users, store, cache, resolver_calls, config, sessions>>
       ELSE LET dev2 == [Get(dev) EXCEPT
                            !.properties = update_properties(@, properties)]
            IN /\ users' = [users EXCEPT ![<<c, user_id>>][handle] = dev2]
               /\ last' = Result("device_POST", c, user_id, req, "ok", "",
                                 Some(get_descriptor(dev2, get_metadata(dev2))))
               /\ cache' = cache_after({dev2.certificate})
               /\ resolver_calls' = calls_after({dev2.certificate})
               /\ UNCHANGED <<store, config, sessions>>

\* GET /<user_id>/<handle>/certificate
device_certificate(c, user_id, handle) ==
    LET user == get_user(c, user_id)
        dev == device_lookup(DevicesOf(c, user_id), handle)
        req == [handle |-> handle]
    IN /\ last' =
            IF user = None
            THEN Result("device_certificate", c, user_id, req,
                        "NotFound", "Device not found", None)
            ELSE IF dev = None
            THEN \* dev.certificate on a missing device: no NotFound is raised
                 Result("device_certificate", c, user_id, req,
                        "InternalError", "LookupError", None)
            ELSE Result("device_certificate", c, user_id, req, "ok", "",
                        Some([pem |-> <<"pem", Get(dev).certificate>>]))
       /\ UNCHANGED <<users, store, cache, resolver_calls, config, sessions>>

\* Requests to every route: one device per user, trusted certificates, with
\* and without a property.
Routes ==
    [clients |-> Clients, users |-> UserIds, challenges |-> Challenges,
     handles |-> {1}, keyHandles |-> {"k1"}, certs |-> {"certTrusted"},
     props |-> {<<>>, [k \in PropKeys |-> "a"]}, counters |-> {0}, times |-> {1}]

InitRoutes == InitWith({FALSE})
NextRoutes ==
    \/ NextWith(Routes)
    \/ \E environ \in Environs : trusted_facets(environ)
    \/ \E environ \in Environs, op \in RouteNames, u \in Routes.users :
          request_refused(op, environ, u)
    \/ \E c \in Routes.clients, u \in Routes.users, h \in Routes.handles :
          device_GET(c, u, h)
    \/ \E c \in Routes.clients, u \in Routes.users, h \in Routes.handles,
          p \in Routes.props : device_POST(c, u, h, p)
    \/ \E c \in Routes.clients, u \in Routes.users, h \in Routes.handles :
          device_certificate(c, u, h)
SpecRoutes == InitRoutes /\ [][NextRoutes]_vars

(***************************************************************************)
(* Reading a step off last: which request it was, on what, with what       *)
(* outcome.                                                                *)
(***************************************************************************)
IsBegin(l) == l.op \in {"register_request", "sign_request"}
IsCompletion(l) == l.op \in {"register_response", "sign_response"}

\* The transaction key a begin or completion request addresses.
KeyOf(l) == <<Client(l.client).id, l.user, l.req.challenge>>

\* The user a request addresses.
UserOf(l) == <<l.client, l.user>>

(***************************************************************************)
(* C1: a stored transaction is retrieved by at most one completion call.   *)
(* Every completion call leaves its (client, user, challenge) key absent   *)
(* from the store, whether it succeeds or fails; a completion call that    *)
(* finds the key absent fails with NotFound "Transaction not found" and    *)
(* one that finds it present does not; and a key absent from the store     *)
(* becomes present only by a begin call for that very key.                 *)
(***************************************************************************)
C1_SingleRetrieval ==
    [][/\ IsCompletion(last') =>
            /\ KeyOf(last') \notin DOMAIN store'
            /\ (KeyOf(last') \notin DOMAIN store =>
                    /\ last'.outcome = "NotFound"
                    /\ last'.message = "Transaction not found")
            /\ (KeyOf(last') \in DOMAIN store =>
                    ~(last'.outcome = "NotFound"
                      /\ last'.message = "Transaction not found"))
       /\ \A k \in (DOMAIN store') \ (DOMAIN store) :
            IsBegin(last') /\ last'.outcome = "ok" /\ k = KeyOf(last')
      ]_vars

\* A replayed completion: the call found no transaction although one had been
\* stored under its key (a registration filled the cache before it).
C1_Witness ==
    /\ IsCompletion(last)
    /\ last.outcome = "NotFound"
    /\ cache # <<>>


(***************************************************************************)
(* The device an authentication completion resolves: the engine verified   *)
(* the response (last keeps its counter), and the stored handle map leads  *)
(* from the response's key handle to a device the user has.                *)
(***************************************************************************)
Verified(l) == l.op = "sign_response" /\ l.req.counter # None

TargetHandle(l) == store[KeyOf(l)].handleMap[Get(l.req.keyHandle)]

Resolves(l) ==
    /\ Verified(l)
    /\ KeyOf(l) \in DOMAIN store
    /\ Get(l.req.keyHandle) \in DOMAIN store[KeyOf(l)].handleMap
    /\ UserOf(l) \in DOMAIN users
    /\ TargetHandle(l) \in DOMAIN users[UserOf(l)]

TargetDevice(l) == users[UserOf(l)][TargetHandle(l)]

\* The stored counter as the specification counts it: absent is -1.
StoredCounter(dev) == IF dev.counter = None THEN -1 ELSE Get(dev.counter)

\* The mutable fields of a device.
Mutable(dev) ==
    [counter |-> dev.counter, authenticated_at |-> dev.authenticated_at,
     properties |-> dev.properties]

(***************************************************************************)
(* C2: an authentication completion that presents a counter less than or   *)
(* equal to the device's stored counter (any stored value, 0 included)     *)
(* leaves the device's counter, authenticated_at and properties as they    *)
(* were.                                                                   *)
(***************************************************************************)
C2_ReplayChangesNothing ==
    [][(/\ Resolves(last')
        /\ TargetDevice(last').counter # None
        /\ Get(last'.req.counter) <= Get(TargetDevice(last').counter))
       => Mutable(users'[UserOf(last')][TargetHandle(last')])
            = Mutable(TargetDevice(last'))
      ]_vars

(***************************************************************************)
(* C3: an authentication completion for a device that is not compromised,  *)
(* with user presence set and a counter strictly above the stored one (an  *)
(* absent counter counting as -1), succeeds: the stored counter becomes    *)
(* the presented one, authenticated_at is set, the properties are the old  *)
(* ones merged with the begin-time and then the response-time properties,  *)
(* and the response is the device's descriptor with the response's         *)
(* clientData.                                                             *)
(***************************************************************************)
C3_AcceptedAuthentication ==
    [][(/\ Resolves(last')
        /\ ~TargetDevice(last').compromised
        /\ last'.req.presence # Some(0)
        /\ Get(last'.req.counter) > StoredCounter(TargetDevice(last')))
       => LET before == TargetDevice(last')
              after == users'[UserOf(last')][TargetHandle(last')]
          IN /\ last'.outcome = "ok"
             /\ after.counter = last'.req.counter
             /\ after.authenticated_at \in {Some(t) : t \in Times}
             /\ last'.req.properties # None
             /\ after.properties =
                  update_properties(
                      update_properties(before.properties,
                                        store[KeyOf(last')].properties),
                      Get(last'.req.properties))
             /\ last'.res.descriptor = get_descriptor(after, get_metadata(after))
             /\ last'.res.clientData = [challenge |-> last'.req.challenge]
             /\ \A h \in DOMAIN users[UserOf(last')] :
                  h # TargetHandle(last') =>
                      users'[UserOf(last')][h] = users[UserOf(last')][h]
      ]_vars

\* An accepted authentication that advanced a stored counter and overwrote a
\* property the device already had.
C3_Witness ==
    /\ last.op = "sign_response"
    /\ last.outcome = "ok"
    /\ last.req.counter = Some(MaxCounter)
    /\ last.req.properties = Some([name |-> "b"])
    /\ last.res.descriptor.properties = [name |-> "b"]

(***************************************************************************)
(* C4, as stated: a completion call that fails leaves the Users, the       *)
(* Devices and the transaction store exactly as they were.                 *)
(***************************************************************************)
C4_FailureChangesNothing ==
    [][(IsCompletion(last') /\ last'.outcome \in {"NotFound", "BadInput"})
       => users' = users /\ store' = store
      ]_vars

(***************************************************************************)
(* C4, amended: a completion call that does not succeed leaves the Users   *)
(* and Devices exactly as they were; of the transaction store it changes   *)
(* nothing when it fails with NotFound, and otherwise removes exactly the  *)
(* transaction it retrieved.  Only a successful completion changes the     *)
(* data model, and it consumes its transaction.                            *)
(***************************************************************************)
C4_FailureKeepsDataModel ==
    [][IsCompletion(last') =>
         /\ last'.outcome # "ok" =>
              /\ users' = users
              /\ store' = store_consume(store, KeyOf(last'))
              /\ (last'.outcome = "NotFound" => store' = store)
         /\ users' # users =>
              /\ last'.outcome = "ok"
              /\ KeyOf(last') \in DOMAIN store
              /\ store' = store_consume(store, KeyOf(last'))
      ]_vars

\* A registration refused for its attestation after a first device was
\* registered: the failure had a data model to keep.
C4_Witness ==
    /\ last.op = "register_response"
    /\ last.outcome = "BadInput"
    /\ last.message = "Device attestation not trusted"
    /\ users # <<>>

(***************************************************************************)
(* An attestation that is not trusted: the empty result cached for a       *)
(* certificate the resolver does not know, or a result whose trust flag is *)
(* off.                                                                    *)
(***************************************************************************)
Untrusted(attestation) == attestation.empty \/ ~attestation.trusted

\* A registration completion that got as far as resolving the attestation.
Attested(l) == l.op = "register_response" /\ l.req.cert # None

(***************************************************************************)
(* C5: a registration completion whose attestation is untrusted, with      *)
(* ALLOW_UNTRUSTED off, fails with BadInput "Device attestation not        *)
(* trusted" and persists no Device and no User.                            *)
(***************************************************************************)
C5_UntrustedRefused ==
    [][(/\ Attested(last')
        /\ ~config.ALLOW_UNTRUSTED
        /\ Untrusted(get_attestation(Get(last'.req.cert))))
       => /\ last'.outcome = "BadInput"
          /\ last'.message = "Device attestation not trusted"
          /\ users' = users
      ]_vars

(***************************************************************************)
(* C6: a registration completion whose attestation is untrusted (the empty *)
(* result included), with ALLOW_UNTRUSTED on, succeeds and persists a new  *)
(* Device of the user, who exists afterwards.                              *)
(***************************************************************************)
C6_UntrustedAllowed ==
    [][(/\ Attested(last')
        /\ config.ALLOW_UNTRUSTED
        /\ Untrusted(get_attestation(Get(last'.req.cert))))
       => /\ last'.outcome = "ok"
          /\ UserOf(last') \in DOMAIN users'
          /\ \E h \in (DOMAIN users'[UserOf(last')]) \ (DOMAIN DevicesOf(last'.client, last'.user)) :
                users'[UserOf(last')][h].certificate = Get(last'.req.cert)
      ]_vars

(***************************************************************************)
(* What a successful begin-authentication step handed out, read off the    *)
(* step: the user's devices, the response and the stored transaction.      *)
(***************************************************************************)
BeginsSign(l) == l.op = "sign_request" /\ l.outcome = "ok"

NonCompromised(l) ==
    {h \in DOMAIN DevicesOf(l.client, l.user) : ~users[UserOf(l)][h].compromised}

KeyHandleOf(l, h) == users[UserOf(l)][h].bind_data.keyHandle

\* The registered keys and the descriptors are parallel lists holding each
\* non-compromised device once and no other device.
KeysAndDescriptorsExact(l) ==
    LET keys == l.res.registeredKeys
        descriptors == l.res.descriptors
    IN /\ Len(keys) = Cardinality(NonCompromised(l))
       /\ Len(descriptors) = Cardinality(NonCompromised(l))
       /\ {descriptors[i].handle : i \in DOMAIN descriptors} = NonCompromised(l)
       /\ \A i \in DOMAIN descriptors :
            /\ descriptors[i].handle \in NonCompromised(l)
            /\ ~descriptors[i].compromised
            /\ keys[i].keyHandle = KeyHandleOf(l, descriptors[i].handle)

(***************************************************************************)
(* C7: when authentication begins for a user with a non-compromised        *)
(* device, the registered keys, the descriptors and the stored handle map  *)
(* hold exactly the user's non-compromised devices: none that is           *)
(* compromised, and every one that is not.                                 *)
(***************************************************************************)
C7_ExactlyNonCompromised ==
    [][BeginsSign(last') =>
         LET handle_map == store'[KeyOf(last')].handleMap
         IN /\ KeysAndDescriptorsExact(last')
            /\ {handle_map[k] : k \in DOMAIN handle_map} = NonCompromised(last')
      ]_vars

(***************************************************************************)
(* C8: an authentication completion that names, by key handle, a device    *)
(* of the user that is marked compromised fails with BadInput and leaves   *)
(* that device's counter, authenticated_at and properties unchanged,       *)
(* whether the device was flagged before the ceremony began or between     *)
(* the begin and the complete call.                                        *)
(***************************************************************************)
C8_CompromisedRefused ==
    [][(last'.op = "sign_response" /\ last'.req.keyHandle # None) =>
         LET kh == Get(last'.req.keyHandle)
             devs == DevicesOf(last'.client, last'.user)
         IN \A h \in DOMAIN devs :
              (devs[h].compromised /\ devs[h].bind_data.keyHandle = kh) =>
                /\ last'.outcome = "BadInput"
                /\ users'[UserOf(last')][h] = devs[h]
      ]_vars

(***************************************************************************)
(* C9: beginning authentication for a user that does not exist or has no   *)
(* device fails with NoEligibleDevices "No devices registered" and an      *)
(* empty device list; for a user whose devices are all compromised it      *)
(* fails with NoEligibleDevices "All devices compromised" and one          *)
(* descriptor per device; neither stores a transaction.                    *)
(***************************************************************************)
C9_NoEligibleDevices ==
    [][last'.op = "sign_request" =>
         LET devs == DevicesOf(last'.client, last'.user)
         IN /\ DOMAIN devs = {} =>
                 /\ last'.outcome = "NoEligibleDevices"
                 /\ last'.message = "No devices registered"
                 /\ last'.res.devices = <<>>
                 /\ store' = store
            /\ (DOMAIN devs # {} /\ \A h \in DOMAIN devs : devs[h].compromised) =>
                 /\ last'.outcome = "NoEligibleDevices"
                 /\ last'.message = "All devices compromised"
                 /\ Len(last'.res.devices) = Cardinality(DOMAIN devs)
                 /\ {last'.res.devices[i].handle : i \in DOMAIN last'.res.devices}
                      = DOMAIN devs
                 /\ store' = store
      ]_vars

\* Authentication refused for a user whose two devices are both compromised.
C9_Witness ==
    /\ last.op = "sign_request"
    /\ last.message = "All devices compromised"
    /\ Len(last.res.devices) = 2

(***************************************************************************)
(* C10: DELETE /<user_id> returns the empty 204 outcome whether or not the *)
(* user exists; after it the user and its devices are absent and every     *)
(* other user is as before; on a user that does not exist (as after a      *)
(* first DELETE) it changes nothing.                                       *)
(***************************************************************************)
C10_DeleteUserIdempotent ==
    [][last'.op = "user_DELETE" =>
         /\ last'.outcome = "no_content"
         /\ last'.res = None
         /\ UserOf(last') \notin DOMAIN users'
         /\ DOMAIN users' = (DOMAIN users) \ {UserOf(last')}
         /\ \A k \in DOMAIN users' : users'[k] = users[k]
         /\ (UserOf(last') \notin DOMAIN users => users' = users)
         /\ store' = store
      ]_vars

\* A user deleted after an authentication ceremony began for it: the user
\* had a device.
C10_Witness ==
    /\ last.op = "user_DELETE"
    /\ users = <<>>
    /\ \E k \in DOMAIN store : store[k].kind = "sign"

(***************************************************************************)
(* C11: DELETE /<user_id>/<handle> returns the empty 204 outcome whether   *)
(* or not the user and the device exist; it removes the device when the    *)
(* user has it and changes nothing otherwise.                              *)
(***************************************************************************)
C11_DeleteDeviceIdempotent ==
    [][last'.op = "device_DELETE" =>
         LET devs == DevicesOf(last'.client, last'.user)
             handle == last'.req.handle
         IN /\ last'.outcome = "no_content"
            /\ last'.res = None
            /\ store' = store
            /\ IF handle \in DOMAIN devs
               THEN /\ DOMAIN users' = DOMAIN users
                    /\ \A k \in (DOMAIN users) \ {UserOf(last')} : users'[k] = users[k]
                    /\ DOMAIN users'[UserOf(last')] = (DOMAIN devs) \ {handle}
                    /\ \A h \in (DOMAIN devs) \ {handle} :
                         users'[UserOf(last')][h] = devs[h]
               ELSE users' = users
      ]_vars

(***************************************************************************)
(* C12: GET and POST on /<user_id>/<handle> and GET on                     *)
(* /<user_id>/<handle>/certificate fail with NotFound when the user does   *)
(* not exist or has no device with that handle, and then change nothing    *)
(* that is stored.                                                         *)
(***************************************************************************)
C12_MissingDeviceNotFound ==
    [][(/\ last'.op \in {"device_GET", "device_POST", "device_certificate"}
        /\ last'.client # ""
        /\ last'.req.handle \notin DOMAIN DevicesOf(last'.client, last'.user)) =>
         /\ last'.outcome = "NotFound"
         /\ users' = users
         /\ store' = store
         /\ cache' = cache
      ]_vars

(***************************************************************************)
(* C13: a request without REMOTE_USER fails with BadInput "No client       *)
(* specified" on every route when debug mode is off, basic-auth            *)
(* credentials or not (they name the client only in debug mode); a         *)
(* principal that matches no Client row fails with NotFound "Client not    *)
(* found"; otherwise the request is handled for the Client whose name is   *)
(* the principal.                                                          *)
(***************************************************************************)
C13_ClientResolution ==
    (last.op \in RouteNames /\ (last.op = "trusted_facets" \/ last.client = "")) =>
        LET environ == last.req
            principal == IF environ.REMOTE_USER = None /\ environ.debug
                         THEN environ.authorization ELSE environ.REMOTE_USER
        IN /\ (environ.REMOTE_USER = None /\ ~environ.debug) =>
                 /\ last.outcome = "BadInput"
                 /\ last.message = "No client specified"
           /\ principal = None =>
                 /\ last.outcome = "BadInput"
                 /\ last.message = "No client specified"
           /\ (principal # None /\ principal \cap Tenants = {}) =>
                 /\ last.outcome = "NotFound"
                 /\ last.message = "Client not found"
           /\ (principal # None /\ principal \cap Tenants # {}) =>
                 /\ last.outcome = "ok"
                 /\ Some(last.client) = principal
                 /\ last.res = Some([trustedFacets |->
                                        Client(Get(principal)).valid_facets])

\* A registration request refused for want of a principal although it carries
\* the basic-auth credentials of a stored client.
C13_Witness ==
    /\ last.op = "register"
    /\ last.outcome = "BadInput"
    /\ last.req.REMOTE_USER = None
    /\ ~last.req.debug
    /\ last.req.authorization = Some("c1")

(***************************************************************************)
(* C14: a successful completion, of a registration or an authentication,   *)
(* leaves on the device, for every key: the response-time value when the   *)
(* response supplies the key; else the begin-time value when the begin     *)
(* call supplied it; else the value the device already had; and no value   *)
(* when none of the three has the key.                                     *)
(***************************************************************************)
C14_MergePrecedence ==
    [][(last'.op \in {"register_response", "sign_response"} /\ last'.outcome = "ok") =>
         LET handle == last'.res.descriptor.handle
             begin == store[KeyOf(last')].properties
             complete == Get(last'.req.properties)
             stored == IF last'.op = "sign_response"
                       THEN users[UserOf(last')][handle].properties ELSE <<>>
             after == users'[UserOf(last')][handle].properties
         IN /\ DOMAIN after = (DOMAIN stored) \cup (DOMAIN begin) \cup (DOMAIN complete)
            /\ \A k \in DOMAIN after :
                 after[k] = IF k \in DOMAIN complete THEN complete[k]
                            ELSE IF k \in DOMAIN begin THEN begin[k]
                            ELSE stored[k]
            /\ last'.res.descriptor.properties = after
      ]_vars

\* An authentication completed with a key that the begin call and the
\* response give different values, a key only the begin call gives, and the
\* device holding its begin-time value afterwards.
C14_Witness ==
    /\ last.op = "sign_response"
    /\ last.outcome = "ok"
    /\ "name" \in DOMAIN Get(last.req.properties)
    /\ "tag" \notin DOMAIN Get(last.req.properties)
    /\ LET after == users[UserOf(last)][last.res.descriptor.handle].properties
       IN /\ DOMAIN after = {"name", "tag"}
          /\ after["name"] = Get(last.req.properties)["name"]
          /\ after["tag"] # after["name"]

(***************************************************************************)
(* C15: whatever the interleaving of concurrent authentication             *)
(* completions, no step lowers the stored counter of a device: a counter   *)
(* that is set stays set and does not decrease.                            *)
(***************************************************************************)
C15_CounterNeverDecreases ==
    [][\A k \in (DOMAIN users) \cap (DOMAIN users') :
         \A h \in (DOMAIN users[k]) \cap (DOMAIN users'[k]) :
            users[k][h].counter # None =>
               /\ users'[k][h].counter # None
               /\ Get(users'[k][h].counter) >= Get(users[k][h].counter)
      ]_vars

(***************************************************************************)
(* C16: of the completions that present one (client, user, challenge),     *)
(* also when they are served concurrently, the one whose lookup finds the  *)
(* record consumes it in that same step and gets past; one whose lookup    *)
(* finds no record fails with NotFound "Transaction not found" and         *)
(* changes nothing.  A device is registered, or an authentication          *)
(* accepted, only by a lookup that consumed a record, so one stored        *)
(* record yields at most one of them.                                      *)
(***************************************************************************)
C16_OneCompletionPerRecord ==
    [][LET opens == \E w \in Workers : sessions[w] = None /\ sessions'[w] # None
           closes == \E w \in Workers : sessions[w] # None /\ sessions'[w] = None
           registers == \E k \in DOMAIN users' :
                           \/ k \notin DOMAIN users
                           \/ /\ k \in DOMAIN users
                              /\ (DOMAIN users'[k]) \ (DOMAIN users[k]) # {}
           lookup == IsCompletion(last') /\ ~closes
           not_found == /\ last'.outcome = "NotFound"
                        /\ last'.message = "Transaction not found"
       IN /\ lookup =>
               IF KeyOf(last') \in DOMAIN store
               THEN KeyOf(last') \notin DOMAIN store' /\ ~not_found
               ELSE not_found /\ users' = users /\ sessions' = sessions
                    /\ store' = store
          /\ (opens \/ registers) =>
               /\ lookup
               /\ KeyOf(last') \in DOMAIN store
               /\ KeyOf(last') \notin DOMAIN store'
      ]_vars

\* A completion refused with NotFound while another worker, which retrieved
\* the record of the same client, user and challenge, has not committed yet.
C16_Witness ==
    /\ last.op = "sign_response"
    /\ last.outcome = "NotFound"
    /\ last.message = "Transaction not found"
    /\ \E w \in Workers :
          /\ sessions[w] # None
          /\ Get(sessions[w]).client = last.client
          /\ Get(sessions[w]).user = last.user
          /\ Get(sessions[w]).seen.challenge = last.req.challenge

(***************************************************************************)
(* C17: every request ends in success or in one of the three errors of     *)
(* the taxonomy (BadInput, NotFound, NoEligibleDevices), whatever begin,   *)
(* complete and delete requests came before it; an authentication          *)
(* completion whose user or device was deleted after the ceremony began    *)
(* ends in one of them too.                                                *)
(***************************************************************************)
C17_OnlyTaxonomyErrors ==
    last.outcome \in {"ok", "no_content", "null",
                      "BadInput", "NotFound", "NoEligibleDevices"}

C19_RegisteredKey ==
    last.op = "_get_registered_key" =>
        LET stored == last.req.bind_data
            key == last.res
            app_id == Client(last.client).app_id
        IN /\ stored.appId = Some(app_id) => key.appId = None
           /\ stored.appId # Some(app_id) => key.appId = stored.appId
           /\ stored.version = None => key.version = Some("U2F_V2")
           /\ stored.version # None => key.version = stored.version
           /\ key.transports = Some(last.req.descriptor.transports)
           /\ key.keyHandle = stored.keyHandle
           /\ key.publicKey = stored.publicKey
           /\ DOMAIN key = DOMAIN stored

\* A stored registration with the client's own app id, no version, and
\* transports other than those the descriptor renders.
C19_Witness ==
    /\ last.op = "_get_registered_key"
    /\ last.req.bind_data.appId = Some(Client(last.client).app_id)
    /\ last.req.bind_data.version = None
    /\ last.req.bind_data.transports = Some(<<"nfc">>)
    /\ last.req.descriptor.transports = <<"usb", "nfc">>
    /\ last.res.transports = Some(<<"usb", "nfc">>)

(***************************************************************************)
(* C20: a completion that presents a challenge under which only another    *)
(* client, or another user of the same client, has a transaction stored    *)
(* fails with NotFound "Transaction not found" and changes neither the     *)
(* store nor any user or device; no completion removes or changes the      *)
(* stored transaction of another (client, user), nor the devices of        *)
(* another (client, user).                                                 *)
(***************************************************************************)
C20_CeremonyIsolation ==
    [][IsCompletion(last') =>
         /\ (/\ KeyOf(last') \notin DOMAIN store
             /\ \E k \in DOMAIN store : k[3] = last'.req.challenge) =>
                /\ last'.outcome = "NotFound"
                /\ last'.message = "Transaction not found"
                /\ store' = store
                /\ users' = users
         /\ \A k \in (DOMAIN store) \ {KeyOf(last')} :
                k \in DOMAIN store' /\ store'[k] = store[k]
         /\ \A u \in (DOMAIN users) \ {UserOf(last')} :
                u \in DOMAIN users' /\ users'[u] = users[u]
      ]_vars

\* A completion by the second client refused while the first client's
\* transaction for the same user name and challenge is still stored.
C20_Witness ==
    /\ IsCompletion(last)
    /\ last.client = "c2"
    /\ last.outcome = "NotFound"
    /\ <<Client("c1").id, last.user, last.req.challenge>> \in DOMAIN store
    /\ <<"c1", last.user>> \in DOMAIN users

====
